---- MODULE Spec2Model ----
(***************************************************************************)
(* The stock-reservation saga of the mini e-commerce backend: the broker   *)
(* connection manager and event publisher of the order and product         *)
(* services (order_service/app/main.py, product_service/app/main.py) and   *)
(* the product service's order.placed consumer; and create_customer of the *)
(* customer service (customer_service/app/main.py).                        *)
(*                                                                         *)
(* A service process is an instance i; svc[i] says which main.py it runs.  *)
(* The broker queue, the product table and the result events are shared.   *)
(***************************************************************************)
EXTENDS Integers, Sequences, FiniteSets, TLC

\* ---------------------------------------------------------------- bounds
MaxStock  == 2    \* largest initial stock_quantity of a product
MaxQty    == 2    \* largest quantity of one order item
MaxItems  == 2    \* most items of one order.placed event
MaxOrders == 2    \* order.placed events the broker receives
MaxEmails == 3    \* distinct email addresses customers register with

\* ------------------------------------------------------ program constants
RetryLimit      == 10  \* product service: for _ in range(10)
OrderRetryLimit == 10  \* order service: for i in range(10)

Instances  == {1, 2}
ProductIds == {1, 2}     \* product ids an event may name
NoMsg      == [order_id |-> 0, items |-> <<>>, json |-> FALSE]
Empty      == [p \in {} |-> 0]   \* a session with no product loaded

Items    == [product_id : ProductIds, quantity : 1..MaxQty]
ItemSeqs == UNION {[1..n -> Items] : n \in 0..MaxItems}

\* An order.placed message: body decodes to {order_id, items} when json is
\* TRUE; otherwise json.loads raises on it.
Messages == [order_id : 1..MaxOrders, items : ItemSeqs, json : {TRUE}]
            \cup [order_id : 1..MaxOrders, items : {<<>>}, json : {FALSE}]

VARIABLES
    svc,                  \* instance -> "order" | "product" | "customer" | "off"
    test_mode,            \* the test-mode flag is set in the processes' environment
    boot,                 \* instance -> position in startup_event
    attempts,             \* instance -> iterations of the connect loop made
    connected,            \* instance -> what connect_to_rabbitmq returned
    rabbitmq_connection,  \* instance -> the global is set
    rabbitmq_channel,     \* instance -> the global is set
    rabbitmq_exchange,    \* instance -> the global is set
    pc,                   \* instance -> position of consume_order_placed_events
    message,              \* instance -> the delivery being processed, or NoMsg
    idx,                  \* instance -> index of the next item of the for loop
    session,              \* instance -> loaded product id -> its stock_quantity
    session_open,         \* instance -> it holds a session it has not closed
    stock,                \* product id with a row -> committed stock_quantity
    queue,                \* the durable queue bound to order.placed
    published,            \* instance -> events it handed to the exchange since
                          \*   its last delivery arrived (since startup, if none)
    sent,                 \* order.placed events the broker has received
    before,               \* instance -> the table when its open delivery arrived
    raised,               \* instance -> its last delivery's processing raised
    settled,              \* instance -> "none" | "ack" | "reject" of its last delivery
    lastPublish,          \* instance -> how its last publish_event call ended
    customers,            \* customers table: customer_id -> email, in insertion order
    response,             \* the customer service's last HTTP response
    request,              \* the create_customer call that response answers
    deductions,           \* order_id -> commits made by deliveries of that order
                          \*   while the order is unacknowledged
    expected              \* product id -> stock_quantity when the consumers were
                          \*   last all at rest, less the quantities of the orders
                          \*   whose deducted event was published since; the
                          \*   stock_quantity itself while they are at rest

conn_vars == <<boot, attempts, connected, rabbitmq_connection, rabbitmq_channel,
               rabbitmq_exchange>>
cons_vars == <<pc, message, idx, session>>
hist_vars == <<before, raised, settled, lastPublish>>
cust_vars == <<customers, response, request>>
ledger_vars == <<deductions, expected>>
vars == <<svc, test_mode, conn_vars, cons_vars, session_open, stock, queue, published, sent, hist_vars,
          cust_vars, ledger_vars>>

\* ---------------------------------------------------------------- helpers
\* What an operation on the database or the broker may do.
Outcomes == {"ok", "raise"}

\* ------------------------------------------------------------- connection
\* One iteration of the loop of connect_to_rabbitmq: connect_robust, channel,
\* declare_exchange; the first that raises ends the iteration (log, sleep,
\* next iteration). The function returns True from the iteration in which all
\* three succeed and False when range(10) is exhausted.
ConnectOutcomes == {"connect_raises", "channel_raises", "declare_raises", "ok"}

\* Faulty variant of connect_to_rabbitmq: the return True is missing, so a successful
\* iteration is followed by further ones until range(10) is exhausted.
connect_to_rabbitmq_NoReturn(i, o) ==
    /\ boot[i] = "connect"
    /\ attempts[i] < RetryLimit
    /\ attempts' = [attempts EXCEPT ![i] = @ + 1]
    /\ rabbitmq_connection' =
           [rabbitmq_connection EXCEPT ![i] = @ \/ o # "connect_raises"]
    /\ rabbitmq_channel' =
           [rabbitmq_channel EXCEPT ![i] = @ \/ o \in {"declare_raises", "ok"}]
    /\ rabbitmq_exchange' = [rabbitmq_exchange EXCEPT ![i] = @ \/ o = "ok"]
    /\ boot' = [boot EXCEPT ![i] =
                   IF attempts[i] + 1 = RetryLimit THEN "returned" ELSE "connect"]
    /\ connected' = [connected EXCEPT ![i] =
                        IF attempts[i] + 1 = RetryLimit THEN "false" ELSE @]

connect_to_rabbitmq(i, o) ==
    /\ boot[i] = "connect"
    /\ attempts[i] < RetryLimit
    /\ attempts' = [attempts EXCEPT ![i] = @ + 1]
    /\ rabbitmq_connection' =
           [rabbitmq_connection EXCEPT ![i] = @ \/ o # "connect_raises"]
    /\ rabbitmq_channel' =
           [rabbitmq_channel EXCEPT ![i] = @ \/ o \in {"declare_raises", "ok"}]
    /\ rabbitmq_exchange' = [rabbitmq_exchange EXCEPT ![i] = @ \/ o = "ok"]
    /\ boot' = [boot EXCEPT ![i] =
                   IF o = "ok" \/ attempts[i] + 1 = RetryLimit
                   THEN "returned" ELSE "connect"]
    /\ connected' = [connected EXCEPT ![i] =
                        IF o = "ok" THEN "true"
                        ELSE IF attempts[i] + 1 = RetryLimit THEN "false"
                        ELSE @]

\* connect_to_rabbitmq of the order service: the same loop.
order_connect_to_rabbitmq(i, o) ==
    /\ boot[i] = "connect"
    /\ attempts[i] < OrderRetryLimit
    /\ attempts' = [attempts EXCEPT ![i] = @ + 1]
    /\ rabbitmq_connection' =
           [rabbitmq_connection EXCEPT ![i] = @ \/ o # "connect_raises"]
    /\ rabbitmq_channel' =
           [rabbitmq_channel EXCEPT ![i] = @ \/ o \in {"declare_raises", "ok"}]
    /\ rabbitmq_exchange' = [rabbitmq_exchange EXCEPT ![i] = @ \/ o = "ok"]
    /\ boot' = [boot EXCEPT ![i] =
                   IF o = "ok" \/ attempts[i] + 1 = OrderRetryLimit
                   THEN "returned" ELSE "connect"]
    /\ connected' = [connected EXCEPT ![i] =
                        IF o = "ok" THEN "true"
                        ELSE IF attempts[i] + 1 = OrderRetryLimit THEN "false"
                        ELSE @]

Connect(i) ==
    /\ \E o \in ConnectOutcomes :
         IF svc[i] = "order" THEN order_connect_to_rabbitmq(i, o)
         ELSE connect_to_rabbitmq(i, o)
    /\ UNCHANGED <<svc, test_mode, session_open, ledger_vars, cust_vars, cons_vars, stock, queue, published, sent, hist_vars>>

\* startup_event up to the call of connect_to_rabbitmq (both services):
\* init_db, and sys.exit(1) when it raises.
StartupInitDb(i) ==
    /\ boot[i] = "init_db"
    /\ \E o \in Outcomes :
           boot' = [boot EXCEPT ![i] = IF o = "ok" THEN "connect" ELSE "exited"]
    /\ UNCHANGED <<svc, test_mode, session_open, ledger_vars, cust_vars, attempts, connected, rabbitmq_connection,
                   rabbitmq_channel, rabbitmq_exchange, cons_vars, stock, queue,
                   published, sent, hist_vars>>

\* startup_event of the product service after connect_to_rabbitmq returned:
\* on True it creates the consumer task, on False it starts nothing.
\* Faulty variant of startup_event: the consumer task is created whatever
\* connect_to_rabbitmq returned.
startup_event_AlwaysConsumes(i) ==
    /\ boot' = [boot EXCEPT ![i] = "up"]
    /\ pc' = [pc EXCEPT ![i] = "start"]

startup_event(i) ==
    /\ boot' = [boot EXCEPT ![i] = "up"]
    /\ pc' = [pc EXCEPT ![i] = IF connected[i] = "true" THEN "start" ELSE @]

\* startup_event of the order service after connect_to_rabbitmq returned: on
\* True it evaluates consume_stock_events(SessionLocal), a name the module
\* neither defines nor imports, so the handler raises NameError; on False it
\* starts nothing.
order_startup_event(i) ==
    /\ boot' = [boot EXCEPT ![i] = IF connected[i] = "true" THEN "failed" ELSE "up"]
    /\ pc' = pc

StartupFinish(i) ==
    /\ boot[i] = "returned"
    /\ attempts' = [attempts EXCEPT ![i] = 0]
    /\ IF svc[i] = "order" THEN order_startup_event(i) ELSE startup_event(i)
    /\ UNCHANGED <<svc, test_mode, session_open, ledger_vars, cust_vars, connected, rabbitmq_connection, rabbitmq_channel,
                   rabbitmq_exchange, message, idx, session, stock, queue,
                   published, sent, hist_vars>>

\* ---------------------------------------------------------------- publisher
\* publish_event of the product service: nothing when the exchange is unset;
\* otherwise the exchange's publish, whose exception is not caught here.
\* o is what the broker does with the publish. The body is the JSON text of
\* data, which decodes to data again.
publish_event(i, routing_key, data, o) ==
    IF ~rabbitmq_exchange[i]
    THEN [published |-> published[i], result |-> "noop"]
    ELSE IF o = "ok"
    THEN [published |-> Append(published[i],
                               [routing_key |-> routing_key, body |-> data]),
          result |-> "sent"]
    ELSE [published |-> published[i], result |-> "raised"]

\* publish_event of the order service: the same, with an error logged when the
\* exchange is unset.
\* Faulty variant of the order service's publish_event: the test of rabbitmq_exchange
\* is missing.
order_publish_event_NoGuard(i, routing_key, message_data, o) ==
    IF o = "ok"
    THEN [published |-> Append(published[i],
                               [routing_key |-> routing_key, body |-> message_data]),
          result |-> "sent"]
    ELSE [published |-> published[i], result |-> "raised"]

order_publish_event(i, routing_key, message_data, o) ==
    IF ~rabbitmq_exchange[i]
    THEN [published |-> published[i], result |-> "noop"]
    ELSE IF o = "ok"
    THEN [published |-> Append(published[i],
                               [routing_key |-> routing_key, body |-> message_data]),
          result |-> "sent"]
    ELSE [published |-> published[i], result |-> "raised"]

\* The order-placed producer: once an order and its items are committed, the
\* order service publishes order.placed{order_id, items}; no retry.
OrderLines == {its \in ItemSeqs : Len(its) <= 1}

CreateOrder(i) ==
    /\ svc[i] = "order"
    /\ boot[i] = "up"
    /\ sent < MaxOrders
    /\ \E its \in OrderLines, o \in Outcomes :
         LET r == order_publish_event(i, "order.placed",
                                      [order_id |-> sent + 1, items |-> its], o)
         IN /\ published' = [published EXCEPT ![i] = r.published]
            /\ lastPublish' = [lastPublish EXCEPT ![i] = r.result]
    /\ sent' = sent + 1
    /\ UNCHANGED <<svc, test_mode, session_open, ledger_vars, cust_vars, conn_vars, cons_vars, stock, queue, before, raised, settled>>

\* ------------------------------------------------------------------ broker
\* Events of several items are explored with one consumer; with several
\* consumers the events have at most one item.
ItemCap == IF Cardinality({i \in Instances : svc[i] = "product"}) > 1 THEN 1 ELSE MaxItems

\* The exchange routes an order.placed event of some order service into the
\* durable queue. The event's content does not depend on the consumers, so it
\* is chosen when a consumer can take it: a message waiting behind another has
\* no effect until it is delivered.
Enqueue ==
    /\ sent < MaxOrders
    /\ queue = <<>>
    /\ \E i \in Instances : pc[i] \in {"idle", "dead"}
    /\ \E m \in Messages :
         /\ m.order_id = sent + 1
         /\ Len(m.items) <= ItemCap
         /\ queue' = <<m>>
    /\ sent' = sent + 1
    /\ UNCHANGED <<svc, test_mode, session_open, ledger_vars, cust_vars, conn_vars, cons_vars, stock, published,
                   hist_vars>>

\* ---------------------------------------------------------------- consumer
\* consume_order_placed_events up to the iterator: declare_queue and bind. An
\* exception reaches the outer except and the task ends.
ConsumerStart(i) ==
    /\ pc[i] = "start"
    /\ \E o \in Outcomes :
         /\ pc' = [pc EXCEPT ![i] = IF o = "ok" THEN "idle" ELSE "dead"]
    /\ UNCHANGED <<svc, test_mode, session_open, ledger_vars, cust_vars, conn_vars, message, idx, session, stock, queue,
                   published, sent, hist_vars>>

\* Instance i holds a delivery it has not settled.
Processing(i) == pc[i] \in {"decode", "loop", "commit", "publish_deducted",
                            "publish_failed", "finally"}

\* The ledger once instance i lets go of its delivery: it starts again from
\* the committed table when no other consumer holds a delivery.
Rest(i) == IF \E j \in Instances \ {i} : Processing(j) THEN expected ELSE stock

\* Faulty variant of the delivery: the next message is taken as soon as the
\* try block of the previous one is left, before its session is closed and
\* the message acknowledged.
Deliver_BeforeAck(i) ==
    /\ pc[i] \in {"idle", "finally"}
    /\ queue # <<>>
    /\ message' = [message EXCEPT ![i] = Head(queue)]
    /\ queue' = Tail(queue)
    /\ pc' = [pc EXCEPT ![i] = "decode"]
    /\ published' = [published EXCEPT ![i] = <<>>]
    /\ before' = [before EXCEPT ![i] = stock]
    /\ UNCHANGED <<svc, test_mode, session_open, ledger_vars, cust_vars, conn_vars, idx, session,
                   stock, sent, raised, settled, lastPublish>>

\* async for message in queue_iter: the broker delivers the head of the queue.
\* Waiting consumers are interchangeable (no session, no message), so the
\* delivery goes to the first of them.
Deliver(i) ==
    /\ pc[i] = "idle"
    /\ \A j \in Instances : j < i => pc[j] # "idle"
    /\ queue # <<>>
    /\ message' = [message EXCEPT ![i] = Head(queue)]
    /\ queue' = Tail(queue)
    /\ pc' = [pc EXCEPT ![i] = "decode"]
    /\ published' = [published EXCEPT ![i] = <<>>]
    /\ before' = [before EXCEPT ![i] = stock]
    /\ raised' = [raised EXCEPT ![i] = FALSE]
    /\ settled' = [settled EXCEPT ![i] = "none"]
    /\ lastPublish' = [lastPublish EXCEPT ![i] = "none"]
    /\ UNCHANGED <<svc, test_mode, session_open, ledger_vars, cust_vars, conn_vars, idx, session, stock, sent>>

\* Where the for loop stands with n the next index: its else branch (commit)
\* once the items are exhausted.
LoopPc(n, items) == IF n > Len(items) THEN "commit" ELSE "loop"

\* json.loads, data.get, db_session_factory(). These run inside
\* message.process() and outside the try: an exception rejects the message
\* without requeue, leaves the iterator and ends the task in the outer except.
Decode(i) ==
    /\ pc[i] = "decode"
    /\ IF message[i].json
       THEN /\ session' = [session EXCEPT ![i] = Empty]
            /\ session_open' = [session_open EXCEPT ![i] = TRUE]
            /\ idx' = [idx EXCEPT ![i] = 1]
            /\ pc' = [pc EXCEPT ![i] = LoopPc(1, message[i].items)]
            /\ UNCHANGED <<message, raised, settled>>
            /\ before' = before
            /\ expected' = expected
       ELSE /\ pc' = [pc EXCEPT ![i] = "dead"]
            /\ message' = [message EXCEPT ![i] = NoMsg]
            /\ raised' = [raised EXCEPT ![i] = TRUE]
            /\ settled' = [settled EXCEPT ![i] = "reject"]
            /\ before' = [before EXCEPT ![i] = Empty]
            /\ expected' = Rest(i)
            /\ UNCHANGED <<session, session_open, idx>>
    /\ UNCHANGED <<svc, test_mode, deductions, cust_vars, conn_vars, stock, queue, published, sent, lastPublish>>

\* Faulty variant of the query: it returns the committed row even when the
\* session holds the product with a pending decrement.
Loaded_Committed(i, p) == stock[p]

\* What the session's query for product id p returns: the object already
\* loaded in this session, else the committed row.
Loaded(i, p) == IF p \in DOMAIN session[i] THEN session[i][p] ELSE stock[p]

\* Faulty variant of the stock test: only the product's existence is tested.
Insufficient_NoStockTest(i, item) ==
    item.product_id \notin DOMAIN stock

\* The stock test of one item.
Insufficient(i, item) ==
    \/ item.product_id \notin DOMAIN stock
    \/ Loaded(i, item.product_id) < item.quantity

\* The session after product.stock_quantity -= item["quantity"].
Decrement(i, item) ==
    [p \in DOMAIN session[i] \cup {item.product_id} |->
        IF p = item.product_id THEN Loaded(i, p) - item.quantity
        ELSE session[i][p]]

\* One iteration of the for loop: query, test, decrement. A raising query goes
\* to the except clause: rollback, log, then the finally clause.
Item(i) ==
    /\ pc[i] = "loop"
    /\ \E o \in Outcomes :
         LET item == message[i].items[idx[i]] IN
         /\ IF o = "raise"
            THEN /\ session' = [session EXCEPT ![i] = Empty]
                 /\ raised' = [raised EXCEPT ![i] = TRUE]
                 /\ pc' = [pc EXCEPT ![i] = "finally"]
                 /\ idx' = idx
            ELSE IF Insufficient(i, item)
            THEN /\ pc' = [pc EXCEPT ![i] = "publish_failed"]
                 /\ UNCHANGED <<session, raised, idx>>
            ELSE /\ session' = [session EXCEPT ![i] = Decrement(i, item)]
                 /\ idx' = [idx EXCEPT ![i] = @ + 1]
                 /\ pc' = [pc EXCEPT ![i] = LoopPc(idx[i] + 1, message[i].items)]
                 /\ raised' = raised
    /\ UNCHANGED <<svc, test_mode, session_open, ledger_vars, cust_vars, conn_vars, message, stock, queue, published, sent, before, settled, lastPublish>>

\* Faulty variant of the commit: an order that a delivery already committed
\* is recognised and its decrements are written once only.
Flush_OncePerOrder(i) ==
    IF deductions[message[i].order_id] > 0 THEN stock
    ELSE [p \in DOMAIN stock |->
             IF p \in DOMAIN session[i] THEN session[i][p] ELSE stock[p]]

\* The table after session.commit(): every product the session changed is
\* written with the value the session holds for it.
Flush(i) ==
    [p \in DOMAIN stock |-> IF p \in DOMAIN session[i] THEN session[i][p] ELSE stock[p]]

\* Faulty variant of the else branch: the event is published first, the
\* commit is left for later.
Commit_Deferred(i) ==
    /\ pc[i] = "commit"
    /\ pc' = [pc EXCEPT ![i] = "publish_deducted"]
    /\ UNCHANGED <<svc, test_mode, session_open, ledger_vars, cust_vars, conn_vars, message, idx, session,
                   stock, queue, published, sent, hist_vars>>

\* The else branch of the for loop, first statement: session.commit(). The
\* commit expires the session's objects. A raising commit writes nothing and
\* goes to the except clause.
Commit(i) ==
    /\ pc[i] = "commit"
    /\ \E o \in Outcomes :
         /\ session' = [session EXCEPT ![i] = Empty]
         /\ IF o = "ok"
            THEN /\ stock' = Flush(i)
                 /\ pc' = [pc EXCEPT ![i] = "publish_deducted"]
                 /\ raised' = raised
            ELSE /\ stock' = stock
                 /\ pc' = [pc EXCEPT ![i] = "finally"]
                 /\ raised' = [raised EXCEPT ![i] = TRUE]
         /\ deductions' = [deductions EXCEPT ![message[i].order_id] =
                               IF o = "ok" THEN @ + 1 ELSE @]
    /\ UNCHANGED <<svc, test_mode, session_open, expected, cust_vars, conn_vars, message, idx, queue, published, sent, before, settled, lastPublish>>

\* The quantity the items of an event request of product p, all items added.
RECURSIVE Requested(_, _)
Requested(items, p) ==
    IF items = <<>> THEN 0
    ELSE (IF Head(items).product_id = p THEN Head(items).quantity ELSE 0)
         + Requested(Tail(items), p)

\* The ledger of notified deductions once instance i's deducted event is out.
Charged(i) ==
    [p \in DOMAIN expected |-> expected[p] - Requested(message[i].items, p)]

\* The else branch, second statement: publish product.stock.deducted. An
\* exception of publish_event goes to the except clause (rollback of the
\* already committed session, log).
PublishDeducted(i) ==
    /\ pc[i] = "publish_deducted"
    /\ \E o \in Outcomes :
         LET r == publish_event(i, "product.stock.deducted",
                                [order_id |-> message[i].order_id], o)
         IN /\ published' = [published EXCEPT ![i] = r.published]
            /\ lastPublish' = [lastPublish EXCEPT ![i] = r.result]
            /\ raised' = [raised EXCEPT ![i] = @ \/ r.result = "raised"]
            /\ expected' = IF r.result = "sent" THEN Charged(i) ELSE expected
    /\ pc' = [pc EXCEPT ![i] = "finally"]
    /\ UNCHANGED <<svc, test_mode, session_open, deductions, cust_vars, conn_vars, message, idx, session, stock, queue, sent, before, settled>>

\* The failing item: publish product.stock.deduction.failed, session.rollback(),
\* break. An exception of publish_event goes to the except clause, which rolls
\* back as well.
PublishFailed(i) ==
    /\ pc[i] = "publish_failed"
    /\ \E o \in Outcomes :
         LET r == publish_event(i, "product.stock.deduction.failed",
                                [order_id |-> message[i].order_id], o)
         IN /\ published' = [published EXCEPT ![i] = r.published]
            /\ lastPublish' = [lastPublish EXCEPT ![i] = r.result]
            /\ raised' = [raised EXCEPT ![i] = @ \/ r.result = "raised"]
    /\ session' = [session EXCEPT ![i] = Empty]
    /\ pc' = [pc EXCEPT ![i] = "finally"]
    /\ UNCHANGED <<svc, test_mode, session_open, ledger_vars, cust_vars, conn_vars, message, idx, stock, queue, sent,
                   before, settled>>

\* Faulty variant of the finally clause: session.close() is missing.
Finish_NoClose(i) ==
    /\ pc[i] = "finally"
    /\ message' = [message EXCEPT ![i] = NoMsg]
    /\ settled' = [settled EXCEPT ![i] = "ack"]
    /\ pc' = [pc EXCEPT ![i] = "idle"]
    /\ idx' = [idx EXCEPT ![i] = 1]
    /\ before' = [before EXCEPT ![i] = Empty]
    /\ deductions' = [deductions EXCEPT ![message[i].order_id] = 0]
    /\ expected' = Rest(i)
    /\ UNCHANGED <<svc, test_mode, session, session_open, cust_vars, conn_vars, stock, queue, published, sent, raised, lastPublish>>

\* finally: session.close(); then message.process() exits without an
\* exception, whatever the try block did, and acknowledges the message.
Finish(i) ==
    /\ pc[i] = "finally"
    /\ session' = [session EXCEPT ![i] = Empty]
    /\ session_open' = [session_open EXCEPT ![i] = FALSE]
    /\ message' = [message EXCEPT ![i] = NoMsg]
    /\ settled' = [settled EXCEPT ![i] = "ack"]
    /\ pc' = [pc EXCEPT ![i] = "idle"]
    /\ idx' = [idx EXCEPT ![i] = 1]
    /\ before' = [before EXCEPT ![i] = Empty]
    /\ deductions' = [deductions EXCEPT ![message[i].order_id] = 0]
    /\ expected' = Rest(i)
    /\ UNCHANGED <<svc, test_mode, cust_vars, conn_vars, stock, queue, published, sent, raised, lastPublish>>

\* A consumer process dies while it holds an unacknowledged delivery: the
\* database drops its open transaction and the broker puts the message back
\* at the head of the queue.
Crash(i) ==
    /\ Processing(i)
    /\ queue' = <<message[i]>> \o queue
    /\ message' = [message EXCEPT ![i] = NoMsg]
    /\ session' = [session EXCEPT ![i] = Empty]
    /\ session_open' = [session_open EXCEPT ![i] = FALSE]
    /\ pc' = [pc EXCEPT ![i] = "crashed"]
    /\ idx' = [idx EXCEPT ![i] = 1]
    /\ before' = [before EXCEPT ![i] = Empty]
    /\ expected' = Rest(i)
    /\ UNCHANGED <<svc, test_mode, deductions, cust_vars, conn_vars, stock, published, sent, raised, settled,
                   lastPublish>>

\* -------------------------------------------------------- customer service
Emails     == 1..MaxEmails
NoResponse == [status |-> 0, email |-> 0]
NoRequest  == [email |-> 0, db |-> "none", prior |-> <<>>]

\* What the database does with create_customer's add, commit and refresh.
DbOutcomes == {"ok", "commit_raises", "refresh_raises"}

\* The customers table enforces unique emails: committing a second row with a
\* stored email raises IntegrityError.
EmailTaken(email) == \E k \in 1..Len(customers) : customers[k] = email

\* Faulty variant of create_customer: the except IntegrityError clause is
\* missing, so a duplicate email is answered by the generic clause.
create_customer_NoIntegrityClause(email, o) ==
    /\ request' = [email |-> email, db |-> o, prior |-> customers]
    /\ IF o = "commit_raises" \/ EmailTaken(email)
       THEN /\ customers' = customers
            /\ response' = [status |-> 500, email |-> 0]
       ELSE IF o = "refresh_raises"
       THEN /\ customers' = Append(customers, email)
            /\ response' = [status |-> 500, email |-> 0]
       ELSE /\ customers' = Append(customers, email)
            /\ response' = [status |-> 201, email |-> email]

\* POST /customers/: add, commit, refresh, return the row (201). IntegrityError
\* is answered 400 after a rollback, any other exception 500 after a rollback;
\* a rollback after a successful commit undoes nothing.
create_customer(email, o) ==
    /\ request' = [email |-> email, db |-> o, prior |-> customers]
    /\ IF o = "commit_raises"
       THEN /\ customers' = customers
            /\ response' = [status |-> 500, email |-> 0]
       ELSE IF EmailTaken(email)
       THEN /\ customers' = customers
            /\ response' = [status |-> 400, email |-> 0]
       ELSE IF o = "refresh_raises"
       THEN /\ customers' = Append(customers, email)
            /\ response' = [status |-> 500, email |-> 0]
       ELSE /\ customers' = Append(customers, email)
            /\ response' = [status |-> 201, email |-> email]

CreateCustomer ==
    /\ \E email \in Emails, o \in DbOutcomes : create_customer(email, o)
    /\ UNCHANGED <<svc, test_mode, session_open, ledger_vars, conn_vars, cons_vars, stock, queue, published,
                   sent, hist_vars>>

\* ------------------------------------------------------------ specifications
\* The product table: product 1 has a row, product 2 may have none.
StockTables == UNION {[S -> 0..MaxStock] : S \in {{1}, ProductIds}}

InitCommon ==
    /\ attempts = [i \in Instances |-> 0]
    /\ message = [i \in Instances |-> NoMsg]
    /\ idx = [i \in Instances |-> 1]
    /\ session = [i \in Instances |-> Empty]
    /\ session_open = [i \in Instances |-> FALSE]
    /\ stock \in StockTables
    /\ queue = <<>>
    /\ published = [i \in Instances |-> <<>>]
    /\ sent = 0
    /\ before = [i \in Instances |-> Empty]
    /\ raised = [i \in Instances |-> FALSE]
    /\ settled = [i \in Instances |-> "none"]
    /\ lastPublish = [i \in Instances |-> "none"]
    /\ customers = <<>>
    /\ response = NoResponse
    /\ request = NoRequest
    /\ deductions = [o \in 1..MaxOrders |-> 0]
    /\ expected = stock

\* One process of either service, about to run its startup handler; its
\* broker globals are None.
Init ==
    /\ \E s \in {"order", "product"} : svc = (1 :> s) @@ (2 :> "off")
    /\ test_mode \in BOOLEAN
    /\ boot = (1 :> "init_db") @@ (2 :> "off")
    /\ connected = [i \in Instances |-> "none"]
    /\ rabbitmq_connection = [i \in Instances |-> FALSE]
    /\ rabbitmq_channel = [i \in Instances |-> FALSE]
    /\ rabbitmq_exchange = [i \in Instances |-> FALSE]
    /\ pc = [i \in Instances |-> "none"]
    /\ InitCommon

Next ==
    \/ \E i \in Instances : StartupInitDb(i)
    \/ \E i \in Instances : Connect(i)
    \/ \E i \in Instances : StartupFinish(i)
    \/ \E i \in Instances : CreateOrder(i)
    \/ Enqueue
    \/ \E i \in Instances : ConsumerStart(i)
    \/ \E i \in Instances : Deliver(i)
    \/ \E i \in Instances : Decode(i)
    \/ \E i \in Instances : Item(i)
    \/ \E i \in Instances : Commit(i)
    \/ \E i \in Instances : PublishDeducted(i)
    \/ \E i \in Instances : PublishFailed(i)
    \/ \E i \in Instances : Finish(i)

Spec == Init /\ [][Next]_vars

\* Two product-service processes whose startup succeeded, both waiting on the
\* same durable queue and writing the same product table. The table holds
\* product 1, the product both consumers contend for; product 2 has no row,
\* so an event that names it fails.
InitConsumers ==
    /\ svc = [i \in Instances |-> "product"]
    /\ test_mode = FALSE
    /\ boot = [i \in Instances |-> "up"]
    /\ connected = [i \in Instances |-> "true"]
    /\ rabbitmq_connection = [i \in Instances |-> TRUE]
    /\ rabbitmq_channel = [i \in Instances |-> TRUE]
    /\ rabbitmq_exchange = [i \in Instances |-> TRUE]
    /\ pc = [i \in Instances |-> "idle"]
    /\ InitCommon
    /\ DOMAIN stock = {1}

NextConsumers ==
    \/ Enqueue
    \/ \E i \in Instances : Deliver(i)
    \/ \E i \in Instances : Decode(i)
    \/ \E i \in Instances : Item(i)
    \/ \E i \in Instances : Commit(i)
    \/ \E i \in Instances : PublishDeducted(i)
    \/ \E i \in Instances : PublishFailed(i)
    \/ \E i \in Instances : Finish(i)
    \/ \E i \in Instances : Crash(i)

SpecConsumers == InitConsumers /\ [][NextConsumers]_vars

\* One customer-service process whose startup succeeded, serving requests on
\* an empty customers table. It has no broker connection and no consumer.
InitCustomers ==
    /\ svc = (1 :> "customer") @@ (2 :> "off")
    /\ test_mode \in BOOLEAN
    /\ boot = (1 :> "up") @@ (2 :> "off")
    /\ connected = [i \in Instances |-> "none"]
    /\ rabbitmq_connection = [i \in Instances |-> FALSE]
    /\ rabbitmq_channel = [i \in Instances |-> FALSE]
    /\ rabbitmq_exchange = [i \in Instances |-> FALSE]
    /\ pc = [i \in Instances |-> "none"]
    /\ InitCommon

NextCustomers == CreateCustomer

SpecCustomers == InitCustomers /\ [][NextCustomers]_vars

\* -------------------------------------------------------------------- properties
Event(key, order_id) == [routing_key |-> key, body |-> [order_id |-> order_id]]

Listed(items) == {items[k].product_id : k \in 1..Len(items)}

\* Instance i has finished the try block of its delivery (commit and publish,
\* or publish and rollback, or the except clause); only close and ack remain.
Completed(i) == pc[i] = "finally"

\* Every item names a product with a row and asks for no more than the stock
\* the product had when the message arrived.
AllAvailable(i) ==
    \A k \in 1..Len(message[i].items) :
        /\ message[i].items[k].product_id \in DOMAIN before[i]
        /\ message[i].items[k].quantity <= before[i][message[i].items[k].product_id]

\* C1: a consumed order.placed event whose items all name existing products
\* and each ask for no more than the available stock leaves, once processed,
\* every listed product's stock lower by exactly the quantity requested of it,
\* and exactly one product.stock.deducted{order_id} event (no failed event)
\* published for the delivery.
C1_DeductedWhenAvailable ==
    \A i \in Instances :
        (Completed(i) /\ AllAvailable(i)) =>
            /\ \A p \in Listed(message[i].items) :
                   stock[p] = before[i][p] - Requested(message[i].items, p)
            /\ published[i] = <<Event("product.stock.deducted", message[i].order_id)>>

\* C2: all-or-nothing. A consumed order.placed event with an item that names
\* a missing product or asks for more than the available stock leaves, once
\* processed, every product's committed stock as it was before the message,
\* and exactly one product.stock.deduction.failed{order_id} event (no deducted
\* event) published.
C2_AllOrNothing ==
    \A i \in Instances :
        (Completed(i) /\ ~AllAvailable(i)) =>
            /\ stock = before[i]
            /\ published[i] =
                   <<Event("product.stock.deduction.failed", message[i].order_id)>>

\* C3: no committed stock_quantity is ever negative, whatever deliveries,
\* redeliveries and interleavings of consumer instances happen.
C3_StockNeverNegative == \A p \in DOMAIN stock : stock[p] >= 0

\* C3 witness: a delivery has committed a product's stock down to zero while
\* another consumer holds the same product loaded in its own session, and a
\* message has been redelivered after its consumer died.
C3_Witness ==
    \E i, j \in Instances, p \in DOMAIN stock :
        /\ i # j
        /\ pc[i] = "publish_deducted"
        /\ before[i][p] > 0
        /\ stock[p] = 0
        /\ pc[j] = "crashed"
        /\ queue # <<>>

\* C4: process, then publish, then ack. No order.placed message is acknowledged
\* unless a result event (product.stock.deducted or
\* product.stock.deduction.failed) was published for it in that delivery.
C4_AckOnlyAfterResult ==
    \A i \in Instances : settled[i] = "ack" => published[i] # <<>>

\* C5: a message whose processing raised an unexpected exception has its
\* session rolled back and is neither acknowledged nor discarded: it stays
\* unacknowledged for the broker to redeliver.
C5_RaisedStaysUnacked ==
    \A i \in Instances :
        raised[i] => (session[i] = Empty /\ settled[i] = "none")

\* C6: publish_event never escalates a publish failure: when the exchange's
\* publish fails, the call returns normally to its caller.
C6_PublishNeverRaises ==
    \A i \in Instances : lastPublish[i] # "raised"

\* A step in which instance i calls publish_event.
PublishCall(i) ==
    \/ svc[i] = "order" /\ sent' = sent + 1
    \/ pc[i] \in {"publish_deducted", "publish_failed"} /\ pc'[i] = "finally"

\* C7: with no exchange established, publish_event is a no-op: it publishes
\* nothing, raises nothing and leaves connection, channel and exchange alone.
C7_NoopWhenExchangeUnset ==
    [][\A i \in Instances :
          (~rabbitmq_exchange[i] /\ PublishCall(i)) =>
              /\ published'[i] = published[i]
              /\ lastPublish'[i] = "noop"
              /\ UNCHANGED <<rabbitmq_connection, rabbitmq_channel,
                             rabbitmq_exchange>>]_vars

\* C7 witness: the order service, its exchange unset, has called publish_event
\* for an order and nothing was published.
C7_Witness ==
    \E i \in Instances :
        /\ svc[i] = "order"
        /\ ~rabbitmq_exchange[i]
        /\ sent > 0
        /\ lastPublish[i] = "noop"
        /\ published[i] = <<>>

\* C8: when every connection attempt of startup failed, startup does not
\* crash (the handler neither exits nor raises), the exchange stays unset for
\* the rest of the process's life, no publish_event call publishes anything,
\* and no consumer task is ever started.
C8_DegradedForLife ==
    \A i \in Instances :
        connected[i] = "false" =>
            /\ boot[i] \in {"returned", "up"}
            /\ ~rabbitmq_exchange[i]
            /\ pc[i] = "none"
            /\ published[i] = <<>>
            /\ lastPublish[i] \in {"none", "noop"}

\* C8 witness: a service whose ten attempts all failed has finished startup
\* and has since been asked to publish every order of the run.
C8_Witness ==
    \E i \in Instances :
        /\ connected[i] = "false"
        /\ boot[i] = "up"
        /\ sent = MaxOrders
        /\ lastPublish[i] = "noop"

\* The attempts the loop of instance i's service allows.
Limit(i) == IF svc[i] = "order" THEN OrderRetryLimit ELSE RetryLimit

\* C9: connect_to_rabbitmq makes at most 10 attempts; it is still looping only
\* while fewer than 10 attempts were made and none succeeded; it returns True
\* from the first attempt that establishes connection, channel and exchange,
\* and False after exactly 10 failed attempts; the exchange is set if and only
\* if it returned True.
C9_BoundedConnect ==
    \A i \in Instances :
        /\ attempts[i] <= Limit(i)
        /\ boot[i] = "connect" =>
               (attempts[i] < Limit(i) /\ ~rabbitmq_exchange[i]
                /\ connected[i] = "none")
        /\ (boot[i] = "returned" /\ connected[i] = "true") =>
               (attempts[i] \in 1..Limit(i) /\ rabbitmq_connection[i]
                /\ rabbitmq_channel[i] /\ rabbitmq_exchange[i])
        /\ (boot[i] = "returned" /\ connected[i] = "false") =>
               attempts[i] = Limit(i)
        /\ boot[i] = "returned" => connected[i] \in {"true", "false"}
        /\ rabbitmq_exchange[i] <=> connected[i] = "true"

\* C9 witness: the call has returned False after its tenth failed attempt, an
\* earlier attempt having got as far as the channel.
C9_Witness ==
    \E i \in Instances :
        /\ boot[i] = "returned"
        /\ connected[i] = "false"
        /\ attempts[i] = Limit(i)
        /\ rabbitmq_channel[i]

\* C10: a message whose handling raised (decoding included) does not stop the
\* consumer: the loop keeps running for the next message.
C10_ConsumerSurvivesError ==
    \A i \in Instances : raised[i] => pc[i] # "dead"

\* C11: with the test-mode flag set in the environment the broker connection
\* is disabled: startup makes no connection attempt (connect_to_rabbitmq is
\* never entered, so it never returns), no consumer is started, and every
\* publish_event call is a no-op.
C11_TestModeDisablesBroker ==
    test_mode =>
        \A i \in Instances :
            /\ attempts[i] = 0
            /\ connected[i] = "none"
            /\ ~rabbitmq_connection[i]
            /\ pc[i] = "none"
            /\ published[i] = <<>>
            /\ lastPublish[i] \in {"none", "noop"}

\* The email of the last create_customer call was registered when it arrived.
Registered == \E k \in 1..Len(request.prior) : request.prior[k] = request.email

Passed(i) == SubSeq(message[i].items, 1, idx[i] - 1)

\* What is left of product p for instance i's next item: the stock the product
\* had when the message arrived less what the passed items took of it.
Left(i, p) == before[i][p] - Requested(Passed(i), p)

\* C13: fail-fast in payload order. The consumer evaluates the items in the
\* order listed; the products it has looked up and decremented are exactly
\* those of the items before the current one, each lowered by what those items
\* took; it stops at the first item whose product is missing or whose stock,
\* less the decrements of earlier items of the same event, is below the
\* requested quantity, and commits only when every item passed.
C13_FailFastInOrder ==
    \A i \in Instances :
        pc[i] \in {"loop", "commit", "publish_failed"} =>
            /\ DOMAIN session[i] = Listed(Passed(i))
            /\ \A p \in DOMAIN session[i] :
                   session[i][p] = Left(i, p) /\ session[i][p] >= 0
            /\ pc[i] = "commit" <=> idx[i] = Len(message[i].items) + 1
            /\ pc[i] = "publish_failed" =>
                   LET item == message[i].items[idx[i]] IN
                   \/ item.product_id \notin DOMAIN before[i]
                   \/ Left(i, item.product_id) < item.quantity

\* C13 witness: the second item of an event fails the stock test only because
\* the first item of the same event took from the same product.
C13_Witness ==
    \E i \in Instances :
        /\ pc[i] = "publish_failed"
        /\ idx[i] = 2
        /\ message[i].items[1].product_id = message[i].items[2].product_id
        /\ message[i].items[2].quantity <= before[i][message[i].items[2].product_id]

\* The routing keys of the events instance i published in its delivery.
Keys(i) == {published[i][k].routing_key : k \in 1..Len(published[i])}

\* C14: commit-then-notify. Whenever a product.stock.deducted event has been
\* published for a delivery, all of that delivery's decrements are in the
\* committed table, written by one commit, and the session holds nothing
\* uncommitted; the event is never published before the commit, nor for a
\* delivery that was rolled back.
C14_CommitThenNotify ==
    \A i \in Instances :
        /\ pc[i] \in {"decode", "loop", "commit", "publish_deducted", "publish_failed"}
               => "product.stock.deducted" \notin Keys(i)
        /\ (pc[i] = "finally" /\ "product.stock.deducted" \in Keys(i)) =>
               /\ published[i] = <<Event("product.stock.deducted", message[i].order_id)>>
               /\ session[i] = Empty
               /\ \A p \in DOMAIN stock :
                      stock[p] = before[i][p] - Requested(message[i].items, p)

\* C14 witness: a deducted event has been published for a delivery that took
\* stock from two products, both decrements committed.
C14_Witness ==
    \E i \in Instances :
        /\ pc[i] = "finally"
        /\ "product.stock.deducted" \in Keys(i)
        /\ \A p \in ProductIds : p \in DOMAIN stock /\ stock[p] < before[i][p]

\* C15: processing is not idempotent per order_id. A redelivered order.placed
\* message is processed from the first item with the same payload and no
\* deduplication: a delivery of an order that an earlier delivery, whose
\* consumer died before acknowledging, has already committed checks and
\* decrements as a first delivery does, its commit lowers the stock by the
\* same quantities a second time, and its result event is published again
\* for the same order_id.
C15_RedeliveryDeductsAgain ==
    \A j \in Instances :
        LET o == message[j].order_id IN
        (message[j] # NoMsg /\ deductions[o] > 0) =>
            /\ pc[j] \in {"loop", "commit", "publish_failed"} =>
                   /\ deductions[o] = 1
                   /\ \A p \in DOMAIN session[j] : session[j][p] = Left(j, p)
            /\ (pc[j] = "publish_deducted" /\ deductions[o] = 2) =>
                   \A p \in DOMAIN stock :
                       stock[p] = before[j][p] - Requested(message[j].items, p)
            /\ (pc[j] = "finally" /\ lastPublish[j] = "sent" /\ deductions[o] = 2) =>
                   /\ published[j] = <<Event("product.stock.deducted", o)>>
                   /\ \A p \in DOMAIN stock :
                          stock[p] = before[j][p] - Requested(message[j].items, p)

\* C15 witness: a consumer published the deducted event of an order and died
\* before acknowledging; the redelivery to the other consumer has committed
\* the same quantity again and published a second deducted event.
C15_Witness ==
    \E i, j \in Instances :
        LET o == message[j].order_id IN
        /\ pc[i] = "crashed"
        /\ pc[j] = "finally"
        /\ deductions[o] = 2
        /\ published[i] = <<Event("product.stock.deducted", o)>>
        /\ published[j] = <<Event("product.stock.deducted", o)>>
        /\ \E p \in DOMAIN stock :
               /\ Requested(message[j].items, p) > 0
               /\ stock[p] = before[j][p] - Requested(message[j].items, p)

\* Instance i has acknowledged a delivery for which it published the deducted
\* event, and waits for the next message.
Deducted(i) ==
    /\ pc[i] = "idle"
    /\ settled[i] = "ack"
    /\ Keys(i) = {"product.stock.deducted"}

\* C16: stock conservation under concurrent consumers. When two consumer
\* instances have processed order.placed events of different orders, the
\* first acknowledged and the second with its deducted event just published,
\* every product's stock_quantity equals the value it had before the two
\* deliveries less the quantities of exactly the orders whose deducted event
\* was published, in every interleaving (no lost update).
C16_StockConservation ==
    \A i, j \in Instances :
        (/\ i # j
         /\ Deducted(i)
         /\ pc[j] = "finally"
         /\ Keys(j) = {"product.stock.deducted"}
         /\ published[i] # published[j]) =>
            \A p \in DOMAIN stock : stock[p] = expected[p]

\* C17: whether connect_to_rabbitmq returned True or False, the order service's
\* startup_event completes without error and the service goes on to serve
\* requests; with the connection established, creating the stock-event
\* consumer task does not fail startup.
C17_OrderStartupCompletes ==
    \A i \in Instances :
        (svc[i] = "order" /\ connected[i] \in {"true", "false"}) =>
            boot[i] \in {"returned", "up"}

\* C18: one message at a time, to completion. A consumer takes a message only
\* when it holds none, the previous one processed and acknowledged and its
\* session gone; every result event it publishes carries the order_id of the
\* one message it holds and is added after the events already published. So
\* the result events leave in the order in which the messages were delivered
\* to that consumer.
C18_OneAtATime ==
    [][\A i \in Instances :
          /\ (message'[i] # NoMsg /\ message'[i] # message[i]) =>
                 /\ message[i] = NoMsg
                 /\ pc[i] = "idle"
                 /\ session[i] = Empty
                 /\ settled[i] \in {"none", "ack"}
                 /\ queue # <<>> /\ message'[i] = Head(queue)
          /\ (svc[i] = "product" /\ published'[i] # published[i]
                 /\ published'[i] # <<>>) =>
                 /\ message'[i] = message[i]
                 /\ \E key \in {"product.stock.deducted",
                                 "product.stock.deduction.failed"} :
                        published'[i] =
                            Append(published[i], Event(key, message[i].order_id))]_vars

\* C18 witness: the first consumer, having processed and acknowledged the
\* first message, has published the result event of the second message
\* delivered to it.
C18_Witness ==
    /\ pc[1] = "finally"
    /\ settled[1] = "none"
    /\ message[1].order_id = 2
    /\ Len(published[1]) = 1
    /\ published[1][1].body.order_id = 2

\* C19: each consumed message gets its own fresh session, closed on every
\* path out of processing. A consumer holds a session exactly while it is
\* between the creation of the session for the message it is processing and
\* the finally clause of that message; between messages, and after its task
\* has ended, it holds none, and nothing a session loaded outlives it.
C19_SessionPerMessage ==
    \A i \in Instances :
        /\ session_open[i] <=>
               pc[i] \in {"loop", "commit", "publish_deducted", "publish_failed",
                          "finally"}
        /\ session_open[i] => message[i] # NoMsg
        /\ ~session_open[i] => session[i] = Empty
        /\ pc[i] = "idle" => (message[i] = NoMsg /\ ~session_open[i])

\* C19 witness: a consumer waits for its next message with no session, its
\* last delivery having ended in the except clause.
C19_Witness ==
    \E i \in Instances :
        /\ pc[i] = "idle"
        /\ settled[i] = "ack"
        /\ raised[i]
        /\ ~session_open[i]

====
